---- MODULE Spec2Model ----
(***************************************************************************)
(* The document upload page of DataTrack KMRL with asynchronous            *)
(* classification (DocumentUploadPage, processFiles, processOCR,           *)
(* requestClassification, removeFile, viewResult).                         *)
(*                                                                         *)
(* Every asynchronous call of processOCR / requestClassification is a      *)
(* process with a position pc[id].  JavaScript runs a continuation to its  *)
(* next await without interleaving: `running` holds the file ids whose     *)
(* synchronous code is still to run in the current task; events (a user    *)
(* action, a settled promise) are taken only when it is empty.  Each       *)
(* setFiles call is one step of the running continuation.                  *)
(*                                                                         *)
(* The process endpoint of the AI services (OCR, language detection,       *)
(* conditional translation, conditional classification) is a second        *)
(* component with its own specification, SpecServer.                       *)
(***************************************************************************)
EXTENDS Integers, Sequences, FiniteSets, TLC

\* Files admitted to the queue over one run.
MaxFiles == 2
\* Length of the file list of one drop / file input.
MaxBatch == 2
\* Files admitted to the queue of the OCR-only page over one run.
MaxOcrFiles == 3

Ids == 1..(IF MaxOcrFiles > MaxFiles THEN MaxOcrFiles ELSE MaxFiles)

\* JSON null / a missing property.
NULL == "null"
\* UploadedFile.error before any error was stored.
NoError == "undefined"
\* UploadedFile.processingId / classificationStatus before they are stored.
NoValue == "none"

--------------------------------------------------------------------------
\* Values that come from outside: file types, HTTP responses and bodies.

\* File.type, split at the slash: one supported and one unsupported type.
FileTypes ==
  { [major |-> "image", minor |-> "png"],
    [major |-> "text", minor |-> "plain"] }

\* A filter that lets only the images through.
IsSupportedImagesOnly(type) == type.major = "image"

\* The filter of processFiles.
IsSupported(type) ==
  \/ type.major = "image"
  \/ type = [major |-> "application", minor |-> "pdf"]
  \/ type = [major |-> "application", minor |-> "msword"]
  \/ type = [major |-> "application",
             minor |-> "vnd.openxmlformats-officedocument.wordprocessingml.document"]

\* TranslationResult | null.
NoTranslation ==
  [isNull |-> TRUE, original_text |-> NULL, translated_text |-> NULL,
   source_language |-> NULL, target_language |-> NULL, error |-> NULL]
ApiTranslation ==
  [isNull |-> FALSE, original_text |-> "txt", translated_text |-> "translated",
   source_language |-> "hi", target_language |-> "en", error |-> NULL]
Translations == {NoTranslation, ApiTranslation}

\* ClassificationResult | null | undefined.
NoClassification == [isNull |-> TRUE, category |-> NULL]
ApiClassification == [isNull |-> FALSE, category |-> "Safety circulars"]

\* The ocr property of the process response: missing, or with a text that is
\* a string or null.
NoOcr == [defined |-> FALSE, text |-> NULL]
Ocrs == {NoOcr, [defined |-> TRUE, text |-> NULL], [defined |-> TRUE, text |-> "txt"]}

ProcessingIds == {"pid-a", "pid-b"}
LanguageCodes == {"ml", "en"}
HttpErrorStatuses == {500}

\* What fetch resolves with: response.ok and response.status.
NoResponse == [settled |-> "pending", ok |-> FALSE, status |-> 0]
Rejected == [settled |-> "rejected", ok |-> FALSE, status |-> 0]
Responses ==
  {[settled |-> "resolved", ok |-> TRUE, status |-> 200]} \cup
  {[settled |-> "resolved", ok |-> FALSE, status |-> s] : s \in HttpErrorStatuses}

\* What a rejected promise carries: an Error with a message, or something else.
FetchErrors == {[isError |-> TRUE, message |-> "Failed to fetch"],
                [isError |-> FALSE, message |-> ""]}
SyntaxError == [isError |-> TRUE, message |-> "Unexpected token in JSON"]
TypeError == [isError |-> TRUE, message |-> "Cannot read properties of undefined"]
NewError(message) == [isError |-> TRUE, message |-> message]
NothingCaught == [isError |-> FALSE, message |-> NoError]

\* What response.json() of the process endpoint resolves with.  parse = FALSE:
\* the body is no JSON and json() rejects.
NoBody ==
  [parse |-> FALSE, detail |-> NULL, hasData |-> FALSE, hasInfo |-> FALSE,
   processing_id |-> NoValue, ocr |-> NoOcr, language_code |-> NULL,
   translation |-> NoTranslation]
ErrorBodies ==
  {NoBody} \cup
  {[NoBody EXCEPT !.parse = TRUE, !.detail = d] : d \in {NULL, "", "Invalid file type"}}
OkBodies ==
  {NoBody, [NoBody EXCEPT !.parse = TRUE],
   [NoBody EXCEPT !.parse = TRUE, !.hasData = TRUE]} \cup
  {[parse |-> TRUE, detail |-> NULL, hasData |-> TRUE, hasInfo |-> TRUE,
    processing_id |-> p, ocr |-> o, language_code |-> l, translation |-> t] :
      p \in ProcessingIds, o \in Ocrs, l \in LanguageCodes, t \in Translations}

\* What response.json() of the classify endpoint resolves with: no JSON, or
\* { success, data: { classification } } with a classification or none.
NoClassifyBody == [parse |-> FALSE, success |-> FALSE, classification |-> NoClassification]
ClassifyBodies ==
  {NoClassifyBody} \cup
  {[parse |-> TRUE, success |-> s, classification |-> c] :
      s \in BOOLEAN, c \in {NoClassification, ApiClassification}}

--------------------------------------------------------------------------
\* The process endpoint, POST /api/documents/process: OCR, language
\* detection, conditional translation, conditional classification, response.

\* A form field: "true", "false", or not sent.
FlagInputs == {"true", "false", "absent"}
\* target_language: a code, or not sent.
TargetInputs == {"en", "ml", "absent"}
DetectedLanguages == {"en", "ml"}

\* A flag that is on unless "false" is sent.
FlagDefaultTrue(v) == v # "false"

\* include_translation and include_classification default to false.
Flag(v) == v = "true"
\* target_language defaults to 'en'.
Target(v) == IF v = "absent" THEN "en" ELSE v

\* A sub-result of the response: null, or a value with its error field.
NullSub == [isNull |-> TRUE, value |-> NULL, error |-> NULL]
Sub(value) == [isNull |-> FALSE, value |-> value, error |-> NULL]
\* A failed step that leaves its sub-result null.
FailedAsNull(step) == NullSub
Failed(step) == [isNull |-> FALSE, value |-> NULL, error |-> step \o " failed"]

IdleServer ==
  [phase |-> "idle", include_translation |-> FALSE, include_classification |-> FALSE,
   target_language |-> "en", ocr |-> NullSub, language_detection |-> NullSub,
   translation |-> NullSub, classification |-> NullSub, attempted |-> {},
   classified_text |-> NULL,
   sent |-> [include_translation |-> "absent", include_classification |-> "absent",
             target_language |-> "absent"],
   succeeded |-> {}]

--------------------------------------------------------------------------
VARIABLES
  files,               \* useState<UploadedFile[]>
  selectedFileResult,  \* useState<UploadedFile | null>
  pc,                  \* position of processOCR / requestClassification per file id
  running,             \* file ids whose synchronous code runs in the current task
  response,            \* per call: the settled fetch (response.ok, response.status)
  apiResult,           \* per call: the parsed process response (apiResult)
  caught,              \* per call: the value caught by the catch block
  requests,            \* per file id: the HTTP requests sent, in order
  toasts,              \* per file id: the titles of the toasts shown
  nextId,              \* ids handed out so far + 1
  srv,                 \* the process endpoint: the request being served
  replies,             \* the responses of the AI-services API, in order
  closureFiles,        \* OCR-only page: the files the running processOCR closes over
  lastDrop,            \* the file list last handed to processFiles and the number
                       \* of skipped files in its notice (kept by SpecAdmit only)
  chat                 \* RagChat: query, messages, isLoading and the pending request

vars == <<files, selectedFileResult, pc, running, response, apiResult, caught,
          requests, toasts, nextId, srv, replies, closureFiles, lastDrop, chat>>

NoSelection == [id |-> 0]

NoDrop == [fileList |-> <<>>, skipped |-> 0]

\* RagChat after its first render: the welcome message, an empty query.
NoChatData == [parse |-> FALSE, hasResponse |-> FALSE, text |-> "none"]
NewChat ==
  [query |-> <<>>,
   messages |-> <<[role |-> "assistant", content |-> "Welcome to KMRL Document Search.",
                   sources |-> "undefined"]>>,
   isLoading |-> FALSE,
   pc |-> "idle",
   sent |-> <<>>,
   ok |-> FALSE,
   data |-> NoChatData]

NoResult ==
  [ocr |-> NoOcr, language_code |-> NULL, translation |-> NoTranslation,
   classification |-> NoClassification]

\* The UploadedFile that processFiles builds.
NewFile(id, type) ==
  [id |-> id, type |-> type, status |-> "uploading", progress |-> 0,
   error |-> NoError, hasResult |-> FALSE, result |-> NoResult,
   classificationStatus |-> NoValue, processingId |-> NoValue]

InQueue(id) == \E i \in DOMAIN files : files[i].id = id
FileOf(id) == files[CHOOSE i \in DOMAIN files : files[i].id = id]

--------------------------------------------------------------------------
\* The state updates: setFiles(prev => prev.map(file => file.id === fileId ? ... : file)).

\* A map that rewrites every entry, whatever its id.
MapFileAll(fs, id, new) == new

MapFile(fs, id, new) ==
  [i \in DOMAIN fs |-> IF fs[i].id = id THEN new[i] ELSE fs[i]]

\* { ...file, status: "processing", progress: 10 }
SetProcessing(fs, id) ==
  MapFile(fs, id, [i \in DOMAIN fs |-> [fs[i] EXCEPT !.status = "processing", !.progress = 10]])

\* A progress update that starts the bar again.
SetProgressRestart(fs, id, p) ==
  MapFile(fs, id, [i \in DOMAIN fs |-> [fs[i] EXCEPT !.progress = 0]])

\* { ...file, progress: p }
SetProgress(fs, id, p) ==
  MapFile(fs, id, [i \in DOMAIN fs |-> [fs[i] EXCEPT !.progress = p]])

\* A fallback built for every missing translation, whatever the language.
TranslationDataAnyLanguage(body) ==
  IF body.translation.isNull
    THEN [isNull |-> FALSE, original_text |-> body.ocr.text,
          translated_text |-> "Once again, wild elephants ...",
          source_language |-> "ml", target_language |-> "en", error |-> NULL]
    ELSE body.translation

\* The fallback of processOCR: translationData.
TranslationData(body) ==
  IF body.translation.isNull /\ body.language_code = "ml"
    THEN [isNull |-> FALSE, original_text |-> body.ocr.text,
          translated_text |-> "Once again, wild elephants ...",
          source_language |-> "ml", target_language |-> "en", error |-> NULL]
    ELSE body.translation

\* Evaluating the fallback reads ocr.text: a TypeError when ocr is missing.
FallbackThrows(body) ==
  body.translation.isNull /\ body.language_code = "ml" /\ ~body.ocr.defined

\* { ...file, status: "completed", progress: 100, classificationStatus: "loading",
\*   processingId, result: { ocr, language_detection, translation: translationData,
\*   classification: undefined, metadata } }
SetCompleted(fs, id, body) ==
  MapFile(fs, id, [i \in DOMAIN fs |->
    [fs[i] EXCEPT !.status = "completed", !.progress = 100,
                  !.classificationStatus = "loading",
                  !.processingId = body.processing_id,
                  !.hasResult = TRUE,
                  !.result = [ocr |-> body.ocr, language_code |-> body.language_code,
                              translation |-> TranslationData(body),
                              classification |-> NoClassification]]])

\* error instanceof Error ? error.message : "Processing failed"
StoredMessage(e) == IF e.isError THEN e.message ELSE "Processing failed"

\* A catch block that puts the failed file back when the queue has lost it.
SetErrorOrAdd(fs, id, e) ==
  IF \E i \in DOMAIN fs : fs[i].id = id
    THEN MapFile(fs, id, [i \in DOMAIN fs |->
           [fs[i] EXCEPT !.status = "error", !.progress = 100, !.error = StoredMessage(e)]])
    ELSE Append(fs, [id |-> id, type |-> [major |-> "image", minor |-> "png"],
                     status |-> "error", progress |-> 100,
                     error |-> StoredMessage(e), hasResult |-> FALSE,
                     result |-> NoResult, classificationStatus |-> NoValue,
                     processingId |-> NoValue])

\* A catch block that stores the message and leaves the status alone.
SetErrorKeepsStatus(fs, id, e) ==
  MapFile(fs, id, [i \in DOMAIN fs |-> [fs[i] EXCEPT !.error = StoredMessage(e)]])

\* The catch block of processOCR: { ...file, status: "error", progress: 100, error }
SetError(fs, id, e) ==
  MapFile(fs, id, [i \in DOMAIN fs |->
    [fs[i] EXCEPT !.status = "error", !.progress = 100, !.error = StoredMessage(e)]])

\* file.id === fileId && file.result ?
\*   { ...file, classificationStatus: "completed", result: { ...file.result, classification } }
SetClassified(fs, id, classification) ==
  [i \in DOMAIN fs |->
     IF fs[i].id = id /\ fs[i].hasResult
       THEN [fs[i] EXCEPT !.classificationStatus = "completed",
                          !.result.classification = classification]
       ELSE fs[i]]

\* The catch block of requestClassification: { ...file, classificationStatus: "error" }
SetClassificationError(fs, id) ==
  MapFile(fs, id, [i \in DOMAIN fs |-> [fs[i] EXCEPT !.classificationStatus = "error"]])

\* prev.filter(file => file.id !== fileId)
RECURSIVE FilterOut(_, _)
FilterOut(fs, id) ==
  IF fs = <<>> THEN <<>>
  ELSE IF Head(fs).id = id THEN FilterOut(Tail(fs), id)
  ELSE <<Head(fs)>> \o FilterOut(Tail(fs), id)

\* errorData.detail ?? `API Error: ...`: an empty detail is kept.
ApiErrorNullish(detail, status) ==
  NewError(IF detail # NULL THEN detail ELSE "API Error: " \o ToString(status))

\* new Error(errorData.detail || `API Error: ${response.status}`); reading
\* .detail of a body that is no JSON never happens: json() has thrown.
ApiError(detail, status) ==
  NewError(IF detail # NULL /\ detail # "" THEN detail
           ELSE "API Error: " \o ToString(status))

\* The requests.
ProcessRequest ==
  [url |-> "/api/documents/process", processing_id |-> NoValue,
   text |-> NULL, translation |-> NULL]

\* A classify request addressed to a fixed processing id instead of the
\* processingId it was called with.
ClassifyRequestFixedId(processingId, originalText, translatedText) ==
  [url |-> "/api/documents/classify", processing_id |-> "pid-a",
   text |-> originalText,
   translation |-> IF translatedText = "" THEN NULL ELSE translatedText]

\* A classify request whose text is the translated text when there is one.
ClassifyRequestTranslatedAsText(processingId, originalText, translatedText) ==
  [url |-> "/api/documents/classify", processing_id |-> processingId,
   text |-> IF translatedText \in {"", NULL} THEN originalText ELSE translatedText,
   translation |-> IF translatedText = "" THEN NULL ELSE translatedText]

\* fetch(`/api/documents/classify/${processingId}`,
\*       { body: { text: originalText, translation: translatedText || null } })
ClassifyRequest(processingId, originalText, translatedText) ==
  [url |-> "/api/documents/classify", processing_id |-> processingId,
   text |-> originalText,
   translation |-> IF translatedText = "" THEN NULL ELSE translatedText]

\* A fetch wrapper that sends the request a second time.
FetchWithRetry(log, req) == Append(Append(log, req), req)

\* fetch sends one request.
Fetch(log, req) == Append(log, req)

\* translationData?.translated_text
TranslatedText(body) ==
  IF TranslationData(body).isNull THEN NULL ELSE TranslationData(body).translated_text

--------------------------------------------------------------------------
Init ==
  /\ files = <<>>
  /\ selectedFileResult = NoSelection
  /\ pc = [id \in Ids |-> "unused"]
  /\ running = <<>>
  /\ response = [id \in Ids |-> NoResponse]
  /\ apiResult = [id \in Ids |-> NoBody]
  /\ caught = [id \in Ids |-> NothingCaught]
  /\ requests = [id \in Ids |-> <<>>]
  /\ toasts = [id \in Ids |-> {}]
  /\ nextId = 1
  /\ srv = IdleServer
  /\ replies = <<>>
  /\ closureFiles = <<>>
  /\ lastDrop = NoDrop
  /\ chat = NewChat

Idle == running = <<>>
Cur == Head(running)
At(id, where) == running # <<>> /\ Cur = id /\ pc[id] = where

\* The list of file lists a drop or a file input can deliver.
FileLists == UNION {[1..n -> FileTypes] : n \in 1..MaxBatch}

RECURSIVE Supported(_)
Supported(fileList) ==
  IF fileList = <<>> THEN <<>>
  ELSE IF IsSupported(Head(fileList))
    THEN <<Head(fileList)>> \o Supported(Tail(fileList))
    ELSE Supported(Tail(fileList))

\* The second filter of processFiles: unsupportedFiles.
IsUnsupported(type) ==
  /\ type.major # "image"
  /\ type # [major |-> "application", minor |-> "pdf"]
  /\ type # [major |-> "application", minor |-> "msword"]
  /\ type # [major |-> "application",
             minor |-> "vnd.openxmlformats-officedocument.wordprocessingml.document"]

RECURSIVE Unsupported(_)
Unsupported(fileList) ==
  IF fileList = <<>> THEN <<>>
  ELSE IF IsUnsupported(Head(fileList))
    THEN <<Head(fileList)>> \o Unsupported(Tail(fileList))
    ELSE Unsupported(Tail(fileList))

\* The "File type notice" toast: `${unsupportedFiles.length} unsupported file(s) skipped`.
Notice(fileList) == [fileList |-> fileList, skipped |-> Len(Unsupported(fileList))]

\* Only the first file of the batch is started.
StartQueueFirstOnly(newIds) == <<Head(newIds)>>

\* newFiles.forEach(uploadedFile => processOCR(uploadedFile.id, uploadedFile.file))
StartQueue(newIds) == newIds

\* processFiles(fileList): the supported files are appended in input order with
\* fresh ids, and processOCR is started for each; nothing happens when none is
\* supported (toasts apart).
processFiles(fileList) ==
  LET supportedFiles == Supported(fileList)
      n == Len(supportedFiles)
      newFiles == [k \in 1..n |-> NewFile(nextId + k - 1, supportedFiles[k])]
      newIds == [k \in 1..n |-> nextId + k - 1]
  IN /\ Idle
     /\ nextId + n - 1 <= MaxFiles
     /\ IF n = 0
          THEN UNCHANGED <<files, selectedFileResult, pc, running, response,
                           apiResult, caught, requests, toasts, nextId, srv,
                           replies, closureFiles, chat>>
          ELSE /\ files' = files \o newFiles
               /\ pc' = [id \in Ids |-> IF id >= nextId /\ id < nextId + n
                                          THEN "start" ELSE pc[id]]
               /\ running' = StartQueue(newIds)
               /\ nextId' = nextId + n
               /\ UNCHANGED <<selectedFileResult, response, apiResult, caught,
                              requests, toasts, srv, replies, closureFiles, chat>>

\* processOCR, first update: status processing, progress 10.
MarkProcessing(id) ==
  /\ At(id, "start")
  /\ files' = SetProcessing(files, id)
  /\ pc' = [pc EXCEPT ![id] = "p10"]
  /\ UNCHANGED <<selectedFileResult, running, response, apiResult, caught,
                 requests, toasts, nextId, srv, replies, closureFiles, lastDrop, chat>>

\* processOCR: progress 30, then the process request is sent and awaited.
SendProcess(id) ==
  /\ At(id, "p10")
  /\ files' = SetProgress(files, id, 30)
  /\ requests' = [requests EXCEPT ![id] = Fetch(@, ProcessRequest)]
  /\ pc' = [pc EXCEPT ![id] = "fetching"]
  /\ running' = Tail(running)
  /\ UNCHANGED <<selectedFileResult, response, apiResult, caught, toasts, nextId, srv,
                 replies, closureFiles, lastDrop, chat>>

\* The process request resolves: progress 60, then response.json() is awaited
\* (in both branches of !response.ok).
ProcessResolves(id, r) ==
  /\ Idle /\ pc[id] = "fetching"
  /\ response' = [response EXCEPT ![id] = r]
  /\ files' = SetProgress(files, id, 60)
  /\ pc' = [pc EXCEPT ![id] = "json"]
  /\ UNCHANGED <<selectedFileResult, running, apiResult, caught, requests,
                 toasts, nextId, srv, replies, closureFiles, lastDrop, chat>>

\* The process request rejects: the catch block runs.
ProcessRejects(id, e) ==
  /\ Idle /\ pc[id] = "fetching"
  /\ response' = [response EXCEPT ![id] = Rejected]
  /\ caught' = [caught EXCEPT ![id] = e]
  /\ pc' = [pc EXCEPT ![id] = "catch"]
  /\ running' = <<id>>
  /\ UNCHANGED <<files, selectedFileResult, apiResult, requests, toasts, nextId, srv,
                 replies, closureFiles, lastDrop, chat>>

\* response.json() settles.  Not OK: the error of the body is thrown.  OK:
\* progress 80.
ProcessBody(id, body) ==
  /\ Idle /\ pc[id] = "json"
  /\ body \in (IF response[id].ok THEN OkBodies ELSE ErrorBodies)
  /\ running' = <<id>>
  /\ IF ~body.parse
       THEN /\ caught' = [caught EXCEPT ![id] = SyntaxError]
            /\ pc' = [pc EXCEPT ![id] = "catch"]
            /\ UNCHANGED <<files, apiResult>>
       ELSE IF ~response[id].ok
         THEN /\ caught' = [caught EXCEPT ![id] = ApiError(body.detail, response[id].status)]
              /\ pc' = [pc EXCEPT ![id] = "catch"]
              /\ UNCHANGED <<files, apiResult>>
         ELSE /\ apiResult' = [apiResult EXCEPT ![id] = body]
              /\ files' = SetProgress(files, id, 80)
              /\ pc' = [pc EXCEPT ![id] = "p80"]
              /\ UNCHANGED caught
  /\ UNCHANGED <<selectedFileResult, response, requests, toasts, nextId, srv,
                 replies, closureFiles, lastDrop, chat>>

\* processOCR: apiResult.data is destructured, the fallback translation is
\* built and the file is completed with classificationStatus loading.
Complete(id) ==
  /\ At(id, "p80")
  /\ IF ~apiResult[id].hasData \/ ~apiResult[id].hasInfo \/ FallbackThrows(apiResult[id])
       THEN /\ caught' = [caught EXCEPT ![id] = TypeError]
            /\ pc' = [pc EXCEPT ![id] = "catch"]
            /\ UNCHANGED files
       ELSE /\ files' = SetCompleted(files, id, apiResult[id])
            /\ pc' = [pc EXCEPT ![id] = "stored"]
            /\ UNCHANGED caught
  /\ UNCHANGED <<selectedFileResult, running, response, apiResult, requests,
                 toasts, nextId, srv, replies, closureFiles, lastDrop, chat>>

\* processOCR: the success toast reads ocr.text.length, then
\* requestClassification is called and sends the classify request.
RequestClassification(id) ==
  /\ At(id, "stored")
  /\ IF ~apiResult[id].ocr.defined \/ apiResult[id].ocr.text = NULL
       THEN /\ caught' = [caught EXCEPT ![id] = TypeError]
            /\ pc' = [pc EXCEPT ![id] = "catch"]
            /\ UNCHANGED <<running, requests, toasts>>
       ELSE /\ toasts' = [toasts EXCEPT ![id] = @ \cup {"OCR Processing Complete"}]
            /\ requests' = [requests EXCEPT ![id] =
                 Fetch(@, ClassifyRequest(apiResult[id].processing_id,
                                          apiResult[id].ocr.text,
                                          TranslatedText(apiResult[id])))]
            /\ pc' = [pc EXCEPT ![id] = "classifying"]
            /\ running' = Tail(running)
            /\ UNCHANGED caught
  /\ UNCHANGED <<files, selectedFileResult, response, apiResult, nextId, srv,
                 replies, closureFiles, lastDrop, chat>>

\* The catch block of processOCR.
Catch(id) ==
  /\ At(id, "catch")
  /\ files' = SetError(files, id, caught[id])
  /\ toasts' = [toasts EXCEPT ![id] = @ \cup {"OCR Processing Failed"}]
  /\ caught' = [caught EXCEPT ![id] = NothingCaught]
  /\ pc' = [pc EXCEPT ![id] = "done"]
  /\ running' = Tail(running)
  /\ UNCHANGED <<selectedFileResult, response, apiResult, requests, nextId, srv,
                 replies, closureFiles, lastDrop, chat>>

\* The classify request resolves.  Not OK: an Error is thrown; OK:
\* response.json() is awaited.
ClassifyResolves(id, r) ==
  /\ Idle /\ pc[id] = "classifying"
  /\ IF r.ok
       THEN /\ pc' = [pc EXCEPT ![id] = "classifyJson"]
            /\ UNCHANGED <<running, caught>>
       ELSE /\ caught' = [caught EXCEPT ![id] =
                 NewError("Classification API error: " \o ToString(r.status))]
            /\ pc' = [pc EXCEPT ![id] = "classifyCatch"]
            /\ running' = <<id>>
  /\ UNCHANGED <<files, selectedFileResult, response, apiResult, requests,
                 toasts, nextId, srv, replies, closureFiles, lastDrop, chat>>

\* The classify request rejects.
ClassifyRejects(id, e) ==
  /\ Idle /\ pc[id] = "classifying"
  /\ caught' = [caught EXCEPT ![id] = e]
  /\ pc' = [pc EXCEPT ![id] = "classifyCatch"]
  /\ running' = <<id>>
  /\ UNCHANGED <<files, selectedFileResult, response, apiResult, requests,
                 toasts, nextId, srv, replies, closureFiles, lastDrop, chat>>

\* response.json() of the classify response settles: on success the file gets
\* classificationStatus completed and the classification; otherwise an Error
\* is thrown.
ClassifyBody(id, body) ==
  /\ Idle /\ pc[id] = "classifyJson"
  /\ running' = <<id>>
  /\ IF ~body.parse
       THEN /\ caught' = [caught EXCEPT ![id] = SyntaxError]
            /\ pc' = [pc EXCEPT ![id] = "classifyCatch"]
            /\ UNCHANGED files
       ELSE IF body.success
         THEN /\ files' = SetClassified(files, id, body.classification)
              /\ pc' = [pc EXCEPT ![id] =
                   IF body.classification.isNull THEN "classifyToastThrows"
                                                 ELSE "classifyToast"]
              /\ UNCHANGED caught
         ELSE /\ caught' = [caught EXCEPT ![id] = NewError("Classification failed")]
              /\ pc' = [pc EXCEPT ![id] = "classifyCatch"]
              /\ UNCHANGED files
  /\ UNCHANGED <<selectedFileResult, response, apiResult, requests, toasts, nextId, srv,
                 replies, closureFiles, lastDrop, chat>>

\* The toast after a successful classification reads
\* classificationResult.data.classification.category.
ClassifyToast(id) ==
  /\ running # <<>> /\ Cur = id
  /\ \/ /\ pc[id] = "classifyToast"
        /\ toasts' = [toasts EXCEPT ![id] = @ \cup {"Classification Complete"}]
        /\ pc' = [pc EXCEPT ![id] = "done"]
        /\ running' = Tail(running)
        /\ UNCHANGED caught
     \/ /\ pc[id] = "classifyToastThrows"
        /\ caught' = [caught EXCEPT ![id] = TypeError]
        /\ pc' = [pc EXCEPT ![id] = "classifyCatch"]
        /\ UNCHANGED <<running, toasts>>
  /\ UNCHANGED <<files, selectedFileResult, response, apiResult, requests, nextId, srv,
                 replies, closureFiles, lastDrop, chat>>

\* The catch block of requestClassification.
ClassifyCatch(id) ==
  /\ At(id, "classifyCatch")
  /\ files' = SetClassificationError(files, id)
  /\ toasts' = [toasts EXCEPT ![id] = @ \cup {"Classification Failed"}]
  /\ caught' = [caught EXCEPT ![id] = NothingCaught]
  /\ pc' = [pc EXCEPT ![id] = "done"]
  /\ running' = Tail(running)
  /\ UNCHANGED <<selectedFileResult, response, apiResult, requests, nextId, srv,
                 replies, closureFiles, lastDrop, chat>>

\* A removeFile that leaves the selection alone.
removeFileKeepsSelection(id) ==
  /\ Idle /\ InQueue(id)
  /\ files' = FilterOut(files, id)
  /\ UNCHANGED <<selectedFileResult, pc, running, response, apiResult, caught,
                 requests, toasts, nextId, srv, replies, closureFiles, lastDrop, chat>>

\* removeFile(fileId), from the remove button of a queue entry.
removeFile(id) ==
  /\ Idle /\ InQueue(id)
  /\ files' = FilterOut(files, id)
  /\ selectedFileResult' =
       IF selectedFileResult.id = id THEN NoSelection ELSE selectedFileResult
  /\ UNCHANGED <<pc, running, response, apiResult, caught, requests, toasts, nextId, srv,
                 replies, closureFiles, lastDrop, chat>>

\* The click on a queue entry: viewResult(file) when the file is completed
\* and has a result.
viewResult(id) ==
  /\ Idle /\ InQueue(id)
  /\ FileOf(id).status = "completed" /\ FileOf(id).hasResult
  /\ selectedFileResult' = FileOf(id)
  /\ UNCHANGED <<files, pc, running, response, apiResult, caught, requests,
                 toasts, nextId, srv, replies, closureFiles, lastDrop, chat>>

\* An effect that never refreshes the selection.
UpdateSelectedNever == FALSE /\ UNCHANGED vars

\* useEffect([files, selectedFileResult]): the selection is replaced by the
\* queue's entry when their classificationStatus or classification differ.
UpdateSelected ==
  /\ Idle
  /\ selectedFileResult # NoSelection
  /\ InQueue(selectedFileResult.id)
  /\ LET updatedFile == FileOf(selectedFileResult.id)
     IN /\ \/ updatedFile.classificationStatus # selectedFileResult.classificationStatus
           \/ updatedFile.result.classification # selectedFileResult.result.classification
        /\ selectedFileResult' = updatedFile
  /\ UNCHANGED <<files, pc, running, response, apiResult, caught, requests,
                 toasts, nextId, srv, replies, closureFiles, lastDrop, chat>>

\* One step of the synchronous code of the running call.
Step(id) ==
  \/ MarkProcessing(id)
  \/ SendProcess(id)
  \/ Complete(id)
  \/ RequestClassification(id)
  \/ Catch(id)
  \/ ClassifyToast(id)
  \/ ClassifyCatch(id)

\* A pending promise of the call settles.
Settle(id) ==
  \/ \E r \in Responses : ProcessResolves(id, r)
  \/ \E e \in FetchErrors : ProcessRejects(id, e)
  \/ \E body \in OkBodies \cup ErrorBodies : ProcessBody(id, body)
  \/ \E r \in Responses : ClassifyResolves(id, r)
  \/ \E e \in FetchErrors : ClassifyRejects(id, e)
  \/ \E body \in ClassifyBodies : ClassifyBody(id, body)

Next ==
  \/ \E fileList \in FileLists : processFiles(fileList) /\ UNCHANGED lastDrop
  \/ \E id \in Ids : Step(id)
  \/ \E id \in Ids : Settle(id)
  \/ \E id \in Ids : removeFile(id)
  \/ \E id \in Ids : viewResult(id)
  \/ UpdateSelected

Spec == Init /\ [][Next]_vars

\* Every request settles and every continuation runs; the user is free.
FairSpec ==
  Spec /\ \A id \in Ids : WF_vars(Step(id)) /\ WF_vars(Settle(id))

\* React also runs the effect after every render whose files or selection changed.
FairSpecEffects == FairSpec /\ WF_vars(UpdateSelected)

--------------------------------------------------------------------------
\* The steps of the process endpoint.

\* The request arrives with its form fields.
Receive(include_translation, include_classification, target_language) ==
  /\ srv.phase = "idle"
  /\ srv' = [IdleServer EXCEPT !.phase = "ocr",
                               !.include_translation = Flag(include_translation),
                               !.include_classification = Flag(include_classification),
                               !.target_language = Target(target_language),
                               !.sent = [include_translation |-> include_translation,
                                         include_classification |-> include_classification,
                                         target_language |-> target_language]]
  /\ UNCHANGED <<files, selectedFileResult, pc, running, response, apiResult,
                 caught, requests, toasts, nextId, replies,
                 closureFiles, lastDrop, chat>>

\* OCR: the text, or the error in the ocr sub-result.
RunOcr(ok) ==
  /\ srv.phase = "ocr"
  /\ srv' = [srv EXCEPT !.phase = "detect",
                        !.ocr = IF ok THEN Sub("txt") ELSE Failed("ocr"),
                        !.attempted = @ \cup {"ocr"},
                        !.succeeded = IF ok THEN @ \cup {"ocr"} ELSE @]
  /\ UNCHANGED <<files, selectedFileResult, pc, running, response, apiResult,
                 caught, requests, toasts, nextId, replies,
                 closureFiles, lastDrop, chat>>

\* Language detection on the OCR text: a code, or the error in the sub-result.
\* Without an OCR text nothing is detected.
DetectLanguage(ok, code) ==
  /\ srv.phase = "detect"
  /\ srv' = IF srv.ocr.error # NULL
              THEN [srv EXCEPT !.phase = "translate"]
              ELSE [srv EXCEPT !.phase = "translate",
                               !.language_detection =
                                  IF ok THEN Sub(code) ELSE Failed("language detection"),
                               !.attempted = @ \cup {"language_detection"},
                               !.succeeded =
                                  IF ok THEN @ \cup {"language_detection"} ELSE @]
  /\ UNCHANGED <<files, selectedFileResult, pc, running, response, apiResult,
                 caught, requests, toasts, nextId, replies,
                 closureFiles, lastDrop, chat>>

\* Translation whenever it was requested, whatever the detected language.
TranslationWantedAnyLanguage(s) == s.include_translation /\ s.ocr.error = NULL

\* Translation is wanted when it was requested and the detected language is
\* not the target language.
TranslationWanted(s) ==
  /\ s.include_translation
  /\ s.ocr.error = NULL
  /\ s.language_detection.value # s.target_language

\* Conditional translation: skipped (null) when not wanted; otherwise the
\* translated text, or the error in the sub-result.
Translate(ok) ==
  /\ srv.phase = "translate"
  /\ srv' = IF TranslationWanted(srv)
              THEN [srv EXCEPT !.phase = "classify",
                               !.translation =
                                  IF ok THEN Sub("translated") ELSE Failed("translation"),
                               !.attempted = @ \cup {"translation"},
                               !.succeeded = IF ok THEN @ \cup {"translation"} ELSE @]
              ELSE [srv EXCEPT !.phase = "classify"]
  /\ UNCHANGED <<files, selectedFileResult, pc, running, response, apiResult,
                 caught, requests, toasts, nextId, replies,
                 closureFiles, lastDrop, chat>>

\* Classification whenever it was requested, with or without an OCR text.
ClassificationWantedWithoutOcr(s) == s.include_classification

\* Classification is wanted when it was requested and OCR gave a text.
ClassificationWanted(s) == s.include_classification /\ s.ocr.error = NULL

\* The text that is classified: the translated text when a translation was
\* made, the OCR text otherwise.
TextToClassify(s) ==
  IF ~s.translation.isNull /\ s.translation.error = NULL
    THEN s.translation.value ELSE s.ocr.value

\* Conditional classification: skipped (null) when not wanted; otherwise the
\* category, or the error in the sub-result.
Classify(ok) ==
  /\ srv.phase = "classify"
  /\ srv' = IF ClassificationWanted(srv)
              THEN [srv EXCEPT !.phase = "respond",
                               !.classification =
                                  IF ok THEN Sub("Safety circulars")
                                        ELSE Failed("classification"),
                               !.classified_text = TextToClassify(srv),
                               !.attempted = @ \cup {"classification"},
                               !.succeeded = IF ok THEN @ \cup {"classification"} ELSE @]
              ELSE [srv EXCEPT !.phase = "respond"]
  /\ UNCHANGED <<files, selectedFileResult, pc, running, response, apiResult,
                 caught, requests, toasts, nextId, replies,
                 closureFiles, lastDrop, chat>>

\* The composed response is returned.
Respond ==
  /\ srv.phase = "respond"
  /\ srv' = [srv EXCEPT !.phase = "responded"]
  /\ UNCHANGED <<files, selectedFileResult, pc, running, response, apiResult,
                 caught, requests, toasts, nextId, replies,
                 closureFiles, lastDrop, chat>>

\* The endpoint is ready for the next request.
NextRequest ==
  /\ srv.phase = "responded"
  /\ srv' = IdleServer
  /\ UNCHANGED <<files, selectedFileResult, pc, running, response, apiResult,
                 caught, requests, toasts, nextId, replies,
                 closureFiles, lastDrop, chat>>

NextServer ==
  \/ \E t \in FlagInputs, c \in FlagInputs, l \in TargetInputs : Receive(t, c, l)
  \/ \E ok \in BOOLEAN : RunOcr(ok)
  \/ \E ok \in BOOLEAN, code \in DetectedLanguages : DetectLanguage(ok, code)
  \/ \E ok \in BOOLEAN : Translate(ok)
  \/ \E ok \in BOOLEAN : Classify(ok)
  \/ Respond
  \/ NextRequest

SpecServer == Init /\ [][NextServer]_vars

--------------------------------------------------------------------------
\* The admission of files: drops of every kind of file, observed with their
\* notice, and the synchronous start of the admitted files.

DropFileTypes ==
  { [major |-> "image", minor |-> "png"],
    [major |-> "image", minor |-> "jpeg"],
    [major |-> "application", minor |-> "pdf"],
    [major |-> "application", minor |-> "msword"],
    [major |-> "application",
     minor |-> "vnd.openxmlformats-officedocument.wordprocessingml.document"],
    [major |-> "text", minor |-> "plain"],
    [major |-> "application", minor |-> "zip"],
    [major |-> "", minor |-> ""] }

DropLists == UNION {[1..n -> DropFileTypes] : n \in 1..MaxBatch}

NextAdmit ==
  \/ \E fileList \in DropLists :
       processFiles(fileList) /\ lastDrop' = Notice(fileList)
  \/ \E id \in Ids : MarkProcessing(id)
  \/ \E id \in Ids : SendProcess(id)
  \/ \E id \in Ids : removeFile(id)

SpecAdmit == Init /\ [][NextAdmit]_vars

\* The page and the endpoint together.  They share no variable, so a property
\* of the one holds in their product exactly when it holds while the other
\* stands still: the page runs against an idle endpoint, or the endpoint
\* serves a request before the page has admitted a file.
NextPageOrEndpoint ==
  \/ srv = IdleServer /\ Next
  \/ nextId = 1 /\ NextServer

SpecPageOrEndpoint == Init /\ [][NextPageOrEndpoint]_vars

--------------------------------------------------------------------------
\* The responses of the AI-services API, as the API documentation gives them.
\* A response body is known by its top-level keys and the value of success.

MaxReplies == 2

Endpoints ==
  {"GET /health", "POST /api/documents/process", "POST /api/ocr/extract-text",
   "POST /api/language/detect", "POST /api/translation/translate",
   "POST /api/classification/document", "GET /api/languages"}

\* 400 bad request, 404 not found, 500 internal server error.
ErrorStatuses == {400, 404, 500}

\* The response each endpoint documents for a request that succeeds.
DocumentedResponse(endpoint) ==
  CASE endpoint = "GET /health" ->
         [endpoint |-> endpoint, status |-> 200, success |-> "absent",
          keys |-> {"status", "version", "uptime"}]
    [] endpoint = "POST /api/ocr/extract-text" ->
         [endpoint |-> endpoint, status |-> 200, success |-> "true",
          keys |-> {"success", "data", "metadata"}]
    [] endpoint = "POST /api/classification/document" ->
         [endpoint |-> endpoint, status |-> 200, success |-> "absent",
          keys |-> {"category", "confidence", "all_categories",
                    "processing_time_seconds", "method"}]
    [] OTHER ->
         [endpoint |-> endpoint, status |-> 200, success |-> "true",
          keys |-> {"success", "data"}]

\* The error response: { success: false, error: { code, message } }.
ErrorResponse(endpoint, status) ==
  [endpoint |-> endpoint, status |-> status, success |-> "false",
   keys |-> {"success", "error"}]

\* The API answers a request to one of its endpoints.
Reply(endpoint, status) ==
  /\ Len(replies) < MaxReplies
  /\ replies' = Append(replies, IF status = 200 THEN DocumentedResponse(endpoint)
                                               ELSE ErrorResponse(endpoint, status))
  /\ UNCHANGED <<files, selectedFileResult, pc, running, response, apiResult,
                 caught, requests, toasts, nextId, srv, closureFiles, lastDrop, chat>>

NextApi == \E endpoint \in Endpoints, status \in {200} \cup ErrorStatuses :
             Reply(endpoint, status)

SpecApi == Init /\ [][NextApi]_vars

--------------------------------------------------------------------------
\* The OCR-only upload page: processOCR(fileId) looks its file up in the files
\* of the render that created the running closure.

OcrUrl == "/api/ocr/extract-text"

\* fetch('http://localhost:8001/api/ocr/extract-text', { method: 'POST', body: formData })
OcrRequest ==
  [url |-> OcrUrl, processing_id |-> NULL, text |-> NULL, translation |-> NULL]

FileNotFound == NewError("File not found for processing")

\* The files a drop or a file input delivers to the OCR-only page.
OcrFileTypes ==
  {[major |-> "image", minor |-> "png"], [major |-> "image", minor |-> "jpeg"],
   [major |-> "application", minor |-> "pdf"]}
OcrFileLists == UNION {[1..n -> OcrFileTypes] : n \in 1..MaxBatch}

\* fileList.filter(file => file.type.startsWith('image/'))
RECURSIVE ImageFiles(_)
ImageFiles(fileList) ==
  IF fileList = <<>> THEN <<>>
  ELSE IF Head(fileList).major = "image"
    THEN <<Head(fileList)>> \o ImageFiles(Tail(fileList))
    ELSE ImageFiles(Tail(fileList))

\* processFiles(fileList) of the OCR-only page, called with the closure of a
\* render whose files are renderFiles: the images are appended with fresh ids
\* and processOCR(file.id) is called for each.
OcrProcessFiles(fileList, renderFiles) ==
  LET imageFiles == ImageFiles(fileList)
      n == Len(imageFiles)
      newFiles == [k \in 1..n |-> NewFile(nextId + k - 1, imageFiles[k])]
      newIds == [k \in 1..n |-> nextId + k - 1]
  IN /\ Idle
     /\ nextId + n - 1 <= MaxOcrFiles
     /\ IF n = 0
          THEN UNCHANGED vars
          ELSE /\ files' = files \o newFiles
               /\ closureFiles' = renderFiles
               /\ pc' = [id \in Ids |-> IF id >= nextId /\ id < nextId + n
                                          THEN "start" ELSE pc[id]]
               /\ running' = newIds
               /\ nextId' = nextId + n
               /\ UNCHANGED <<selectedFileResult, response, apiResult, caught,
                              requests, toasts, srv, replies, lastDrop, chat>>

\* handleDrop is useCallback(..., []): it keeps the processFiles of the first
\* render, whose files are [].
handleDrop(fileList) == OcrProcessFiles(fileList, <<>>)

\* handleFileInput is made anew by every render: its processFiles sees the
\* files of the last render, the queue before this event.
handleFileInput(fileList) == OcrProcessFiles(fileList, files)

\* files.find(f => f.id === fileId) on the files of the closure.
Found(id) == \E i \in DOMAIN closureFiles : closureFiles[i].id = id

\* processOCR(fileId) up to its first await: the lookup; then status
\* processing, progress 10, progress 30 and the OCR request; or the throw when
\* the file is not found.
processOCR(id) ==
  /\ At(id, "start")
  /\ IF Found(id)
       THEN /\ files' = SetProgress(SetProcessing(files, id), id, 30)
            /\ requests' = [requests EXCEPT ![id] = Fetch(@, OcrRequest)]
            /\ pc' = [pc EXCEPT ![id] = "fetching"]
            /\ running' = Tail(running)
            /\ UNCHANGED caught
       ELSE /\ caught' = [caught EXCEPT ![id] = FileNotFound]
            /\ pc' = [pc EXCEPT ![id] = "catch"]
            /\ UNCHANGED <<files, requests, running>>
  /\ UNCHANGED <<selectedFileResult, response, apiResult, toasts, nextId, srv,
                 replies, closureFiles, lastDrop, chat>>

\* The catch block of processOCR: status error, progress 100, the message.
OcrCatch(id) ==
  /\ At(id, "catch")
  /\ files' = SetError(files, id, caught[id])
  /\ toasts' = [toasts EXCEPT ![id] = @ \cup {"OCR Processing Failed"}]
  /\ caught' = [caught EXCEPT ![id] = NothingCaught]
  /\ pc' = [pc EXCEPT ![id] = "done"]
  /\ running' = Tail(running)
  /\ UNCHANGED <<selectedFileResult, response, apiResult, requests, nextId, srv,
                 replies, closureFiles, lastDrop, chat>>

\* The OCR-only page.  No lookup ever finds its file, so no request is sent,
\* no response is handled and no file completes: the steps of processOCR after
\* the fetch and the view of a result never run.
NextOcrOnly ==
  \/ \E fileList \in OcrFileLists : handleDrop(fileList)
  \/ \E fileList \in OcrFileLists : handleFileInput(fileList)
  \/ \E id \in Ids : processOCR(id)
  \/ \E id \in Ids : OcrCatch(id)
  \/ \E id \in Ids : removeFile(id)

SpecOcrOnly == Init /\ [][NextOcrOnly]_vars

--------------------------------------------------------------------------
\* RagChat: the chat of the search page.

MaxQueryLen == 2
MaxSubmits == 2

\* The text of the input: letters and blanks.
Chars == {" ", "a"}
Queries == UNION {[1..n -> Chars] : n \in 0..MaxQueryLen}

\* query.trim() without the trimming.
TrimNothing(q) == q

\* query.trim(): the blanks at both ends are dropped.
RECURSIVE Trim(_)
Trim(q) ==
  IF q = <<>> THEN <<>>
  ELSE IF Head(q) = " " THEN Trim(Tail(q))
  ELSE IF q[Len(q)] = " " THEN Trim(SubSeq(q, 1, Len(q) - 1))
  ELSE q

\* The bodies of the chat response: unreadable, without response, or with a
\* response text that names a document in quotes, holds a keyword, or neither.
ChatTexts == {"quoted", "keyword", "plain"}
ChatBodies ==
  {NoChatData, [parse |-> TRUE, hasResponse |-> FALSE, text |-> "none"]} \cup
  {[parse |-> TRUE, hasResponse |-> TRUE, text |-> t] : t \in ChatTexts}

\* extractSources(text): the quoted documents, else the documents of the
\* keywords, else the repository; never empty.
extractSources(text) ==
  CASE text = "quoted" -> "quoted documents"
    [] text = "keyword" -> "keyword documents"
    [] OTHER -> "repository"

Apology ==
  [role |-> "assistant",
   content |-> "I apologize, but I'm having trouble connecting to the document database",
   sources |-> "undefined"]

ChatVarsUnchanged ==
  UNCHANGED <<files, selectedFileResult, pc, running, response, apiResult,
              caught, requests, toasts, nextId, srv, replies, closureFiles,
              lastDrop>>

\* onChange of the input (disabled while loading): setQuery(e.target.value).
setQuery(q) ==
  /\ ~chat.isLoading
  /\ chat' = [chat EXCEPT !.query = q]
  /\ ChatVarsUnchanged

\* handleSubmit up to its await (the form is disabled while loading): nothing
\* for a blank query; else the user message, isLoading, the emptied query and
\* the chat request.
handleSubmit ==
  /\ ~chat.isLoading
  /\ Len(chat.sent) < MaxSubmits
  /\ IF Trim(chat.query) = <<>>
       THEN chat' = chat
       ELSE chat' = [chat EXCEPT
              !.messages = Append(@, [role |-> "user", content |-> chat.query,
                                      sources |-> "undefined"]),
              !.isLoading = TRUE,
              !.query = <<>>,
              !.sent = Append(@, chat.query),
              !.ok = FALSE,
              !.data = NoChatData,
              !.pc = "fetching"]
  /\ ChatVarsUnchanged

\* The catch and finally blocks of handleSubmit: the apology, isLoading false.
ChatFails(c) ==
  [c EXCEPT !.messages = Append(@, Apology), !.isLoading = FALSE, !.pc = "idle"]

\* fetch rejects: fetchChatResponse rethrows.
ChatRejects ==
  /\ chat.pc = "fetching"
  /\ chat' = ChatFails(chat)
  /\ ChatVarsUnchanged

\* fetch resolves: response.text() is awaited when not OK, response.json() when OK.
ChatResolves(ok) ==
  /\ chat.pc = "fetching"
  /\ chat' = [chat EXCEPT !.ok = ok, !.pc = IF ok THEN "json" ELSE "text"]
  /\ ChatVarsUnchanged

\* !response.ok: after the text (or its 'Unknown error'), Request failed is thrown.
ChatErrorText ==
  /\ chat.pc = "text"
  /\ chat' = ChatFails(chat)
  /\ ChatVarsUnchanged

\* response.json() settles.  A rejection, or a body whose response is not a
\* string (extractSources throws on text.match), ends in the catch block;
\* else the assistant message with the response and its sources is appended;
\* finally isLoading is false.
ChatBody(body) ==
  /\ chat.pc = "json"
  /\ chat' = IF body.parse /\ body.hasResponse
               THEN [chat EXCEPT
                       !.data = body,
                       !.messages = Append(@, [role |-> "assistant",
                                               content |-> body.text,
                                               sources |-> extractSources(body.text)]),
                       !.isLoading = FALSE,
                       !.pc = "idle"]
               ELSE ChatFails([chat EXCEPT !.data = body])
  /\ ChatVarsUnchanged

\* The chat request settles.
ChatSettle ==
  \/ ChatRejects
  \/ \E ok \in BOOLEAN : ChatResolves(ok)
  \/ ChatErrorText
  \/ \E body \in ChatBodies : ChatBody(body)

NextChat ==
  \/ \E q \in Queries : setQuery(q)
  \/ handleSubmit
  \/ ChatSettle

SpecChat == Init /\ [][NextChat]_vars

\* Every chat request settles.
FairSpecChat == SpecChat /\ WF_vars(ChatSettle)

--------------------------------------------------------------------------
\* What the claims speak of.

Status(id) == IF InQueue(id) THEN FileOf(id).status ELSE "removed"
ClassificationStatus(id) ==
  IF InQueue(id) THEN FileOf(id).classificationStatus ELSE "removed"

ProcessUrl == "/api/documents/process"
ClassifyUrl == "/api/documents/classify"
Sent(id, url) == {k \in DOMAIN requests[id] : requests[id][k].url = url}

\* The process request of the file failed: fetch rejected, or the status is not OK.
ProcessFailed(id) ==
  \/ response[id].settled = "rejected"
  \/ response[id].settled = "resolved" /\ ~response[id].ok

StatusRank(st) ==
  CASE st = "uploading" -> 0 [] st = "processing" -> 1
    [] st = "completed" -> 2 [] st = "error" -> 2

\* C1: a file's status only moves forward along uploading -> processing ->
\* completed | error; completed and error are terminal.
C1_StatusForwardOnly ==
  [][\A id \in Ids :
       (InQueue(id) /\ InQueue(id)') =>
         /\ StatusRank(Status(id)') >= StatusRank(Status(id))
         /\ Status(id) \in {"completed", "error"} => Status(id)' = Status(id)]_vars

\* C2: a file's classificationStatus only moves loading -> completed or
\* loading -> error; completed and error never change again.
C2_ClassificationForwardOnly ==
  [][\A id \in Ids :
       (InQueue(id) /\ InQueue(id)') =>
         /\ ClassificationStatus(id) \in {"completed", "error"}
              => ClassificationStatus(id)' = ClassificationStatus(id)
         /\ ClassificationStatus(id) = "loading"
              => ClassificationStatus(id)' \in {"loading", "completed", "error"}]_vars

\* C3: a file that has a classificationStatus has status completed and a
\* stored result.
C3_ClassificationOnlyWhileCompleted ==
  \A i \in DOMAIN files :
    files[i].classificationStatus # NoValue =>
      files[i].status = "completed" /\ files[i].hasResult

\* C4: a classify request is sent only after the file's process request
\* returned successfully, is addressed to the processing_id of that response,
\* and the file has no second process request.
C4_TwoPhase ==
  \A id \in Ids :
    /\ Cardinality(Sent(id, ProcessUrl)) <= 1
    /\ \A k \in Sent(id, ClassifyUrl) :
         /\ k > 1 /\ requests[id][1].url = ProcessUrl
         /\ response[id].settled = "resolved" /\ response[id].ok
         /\ apiResult[id].parse /\ apiResult[id].hasData
         /\ requests[id][k].processing_id = apiResult[id].processing_id

C4_Witness ==
  \E id \in Ids : Sent(id, ClassifyUrl) # {} /\ apiResult[id].processing_id = "pid-b"

\* C5: when the process request fails, the file ends in status error with
\* progress 100 and a non-empty message, the failure toast is shown and no
\* classify request is sent.
C5_ProcessFailure ==
  \A id \in Ids :
    ProcessFailed(id) =>
      /\ Sent(id, ClassifyUrl) = {}
      /\ pc[id] = "done" =>
           /\ "OCR Processing Failed" \in toasts[id]
           /\ InQueue(id) =>
                /\ FileOf(id).status = "error"
                /\ FileOf(id).progress = 100
                /\ FileOf(id).error \notin {NoError, ""}

C5_Witness ==
  /\ \E id \in Ids : pc[id] = "done" /\ InQueue(id) /\ response[id].settled = "rejected"
  /\ \E id \in Ids : pc[id] = "done" /\ InQueue(id) /\ response[id].settled = "resolved"
                        /\ ~response[id].ok

\* C6: at most one process request and at most one classify request are ever
\* sent per file, also after a failure of either.
C6_NoRetry ==
  \A id \in Ids :
    /\ Cardinality(Sent(id, ProcessUrl)) <= 1
    /\ Cardinality(Sent(id, ClassifyUrl)) <= 1
    /\ Len(requests[id]) <= 2

C6_Witness ==
  /\ \E id \in Ids : pc[id] = "done" /\ ProcessFailed(id) /\ Len(requests[id]) = 1
  /\ \E id \in Ids : pc[id] = "done" /\ ClassificationStatus(id) = "error"
                        /\ Len(requests[id]) = 2

\* C7: every file accepted into the queue eventually reaches status completed
\* or error, unless it is removed, when every request settles.
C7_EventuallySettled ==
  \A id \in Ids :
    (Status(id) \in {"uploading", "processing"})
      ~> (Status(id) \in {"completed", "error", "removed"})

C7_Witness ==
  /\ \E id \in Ids : pc[id] = "done" /\ Status(id) = "error"
  /\ \E id \in Ids : pc[id] = "done" /\ Status(id) = "completed"

\* C8: a classificationStatus that was set to loading does not stay loading:
\* when processOCR and requestClassification have finished for a file of the
\* queue, its classificationStatus is not loading.
C8_LoadingSettles ==
  \A id \in Ids :
    (pc[id] = "done" /\ InQueue(id)) => FileOf(id).classificationStatus # "loading"

\* C9: with no translation in the response and language code ml the stored
\* translation is the synthesized one (ml -> en, original_text the OCR text,
\* error null); in every other case it is the translation of the response.
C9_FallbackSynthesis ==
  \A id \in Ids :
    (InQueue(id) /\ FileOf(id).hasResult) =>
      LET api == apiResult[id]
          stored == FileOf(id).result.translation
      IN IF api.translation.isNull /\ api.language_code = "ml"
           THEN /\ ~stored.isNull
                /\ stored.source_language = "ml"
                /\ stored.target_language = "en"
                /\ stored.original_text = api.ocr.text
                /\ stored.error = NULL
           ELSE stored = api.translation

C9_Witness ==
  /\ \E id \in Ids : /\ InQueue(id) /\ FileOf(id).hasResult
                        /\ apiResult[id].translation.isNull
                        /\ apiResult[id].language_code = "ml"
  /\ \E id \in Ids : /\ InQueue(id) /\ FileOf(id).hasResult
                        /\ apiResult[id].translation.isNull
                        /\ apiResult[id].language_code = "en"
                        /\ FileOf(id).result.translation.isNull

\* C10: the translation sub-result is null whenever include_translation is
\* false or the detected language is the target language, and a translation
\* is attempted only when include_translation is true and the two differ.
C10_TranslationSkipped ==
  /\ "translation" \in srv.attempted =>
       /\ srv.include_translation
       /\ srv.language_detection.value # srv.target_language
  /\ srv.phase \in {"classify", "respond", "responded"} =>
       ((~srv.include_translation
           \/ srv.language_detection.value = srv.target_language)
          => srv.translation.isNull)

C10_Witness ==
  /\ srv.phase = "responded"
  /\ srv.include_translation
  /\ srv.target_language = "ml"
  /\ srv.language_detection.value = "ml"
  /\ srv.translation.isNull

\* The sub-result of a step in the response.
SubResult(step) ==
  CASE step = "ocr" -> srv.ocr
    [] step = "language_detection" -> srv.language_detection
    [] step = "translation" -> srv.translation
    [] step = "classification" -> srv.classification

\* C11: classification is attempted only when include_classification is true;
\* when it is false or not sent, no classification is made and the
\* classification sub-result is null.
C11_ClassificationOnlyOnRequest ==
  /\ "classification" \in srv.attempted => srv.sent.include_classification = "true"
  /\ srv.sent.include_classification \in {"false", "absent"} =>
       /\ "classification" \notin srv.attempted
       /\ srv.classification.isNull

C11_Witness ==
  /\ srv.phase = "responded"
  /\ srv.sent.include_classification = "absent"
  /\ "ocr" \in srv.succeeded
  /\ srv.classification.isNull

\* C12: a failed sub-step has its error in its own sub-result, the steps that
\* succeeded keep their values in the response, and the later steps that are
\* wanted are still made: the request is answered, not aborted.
C12_PartialResults ==
  srv.phase \in {"respond", "responded"} =>
    /\ \A step \in srv.attempted :
         IF step \in srv.succeeded
           THEN ~SubResult(step).isNull /\ SubResult(step).value # NULL
                /\ SubResult(step).error = NULL
           ELSE ~SubResult(step).isNull /\ SubResult(step).error # NULL
    /\ "ocr" \in srv.succeeded =>
         /\ "language_detection" \in srv.attempted
         /\ (srv.include_translation
               /\ srv.language_detection.value # srv.target_language)
              => "translation" \in srv.attempted
         /\ srv.include_classification => "classification" \in srv.attempted

C12_Witness ==
  /\ srv.phase = "responded"
  /\ srv.attempted = {"ocr", "language_detection", "translation", "classification"}
  /\ srv.succeeded = {"ocr", "classification"}

\* C13: when OCR fails, no classification is attempted and the classification
\* sub-result carries no category, also with include_classification true.
C13_NoClassificationWithoutOcr ==
  srv.ocr.error # NULL =>
    /\ "classification" \notin srv.attempted
    /\ srv.classification.value = NULL

C13_Witness ==
  /\ srv.phase = "responded"
  /\ srv.include_classification
  /\ srv.ocr.error # NULL

\* The file was admitted to the queue and removed from it.
Removed(id) == id < nextId /\ ~InQueue(id)

\* The ids of a queue, in order.
IdsOf(fs) == [i \in DOMAIN fs |-> fs[i].id]

\* The processing ids still running their synchronous code.
Running == {running[k] : k \in DOMAIN running}

\* C17: after removeFile(id), while a process or classify request of the file
\* is in flight, the later completion or failure never puts the file back and
\* changes no entry of the queue.
C17_RemovedStaysRemoved ==
  [][\A id \in Ids :
       Removed(id) =>
         /\ ~InQueue(id)'
         /\ pc[id]' # pc[id] => files' = files]_vars

C17_Witness ==
  \E id \in Ids, other \in Ids :
    /\ Removed(id) /\ InQueue(other)
    /\ pc[id] \in {"catch", "p80", "stored", "classifyToast", "classifyCatch"}

\* C18: progress is 0 while uploading, one of 10, 30, 60, 80 while processing
\* and 100 when completed or error; the progress of a file never decreases.
C18_Progress ==
  /\ [](\A i \in DOMAIN files :
          /\ files[i].status = "uploading" => files[i].progress = 0
          /\ files[i].status = "processing" => files[i].progress \in {10, 30, 60, 80}
          /\ files[i].status \in {"completed", "error"} => files[i].progress = 100)
  /\ [][\A id \in Ids :
          (InQueue(id) /\ InQueue(id)') => FileOf(id)'.progress >= FileOf(id).progress]_vars

C18_Witness ==
  \E i \in DOMAIN files, j \in DOMAIN files :
    /\ files[i].status = "processing" /\ files[i].progress = 80
    /\ files[j].status = "completed" /\ files[j].progress = 100

\* C19: a state update of processOCR or requestClassification for a file id
\* changes only the entry with that id: the other entries, the order and the
\* length stay; entries are added only by processFiles and removed only by
\* removeFile.
C19_OnlyOwnEntry ==
  [][/\ Len(files') > Len(files) =>
         /\ nextId' > nextId
         /\ SubSeq(files', 1, Len(files)) = files
     /\ Len(files') < Len(files) =>
         /\ pc' = pc /\ nextId' = nextId
         /\ \E id \in Ids : InQueue(id) /\ files' = FilterOut(files, id)
     /\ \A id \in Ids :
          (pc[id]' # pc[id] /\ nextId' = nextId) =>
            /\ IdsOf(files') = IdsOf(files)
            /\ \A i \in DOMAIN files : files[i].id # id => files'[i] = files[i]]_vars

C19_Witness ==
  /\ Len(files) = 2
  /\ files[1].status = "completed" /\ files[1].classificationStatus = "completed"
  /\ files[2].status = "error"

\* C20: there is no queueing: once processFiles has run, the process request
\* of every accepted file has been sent, before any request settles; a file
\* whose request is not yet sent is in the running batch.  For a batch of n
\* files, n process requests are in flight together.
C20_NoBackpressure ==
  /\ \A id \in Ids : pc[id] \in {"start", "p10"} => id \in Running
  /\ Idle => \A id \in 1..(nextId - 1) : Sent(id, ProcessUrl) # {}

C20_Witness ==
  /\ Idle
  /\ nextId = MaxBatch + 1
  /\ \A id \in 1..MaxBatch :
       /\ pc[id] = "fetching"
       /\ Len(requests[id]) = 1
       /\ response[id] = NoResponse

\* C14: the endpoint classifies the translated text when a translation was
\* made and the OCR text otherwise; the classify request of the two-phase flow
\* carries the OCR text as text and, as translation, the translated text stored
\* with the file, or null when none is stored.
C14_ClassifiedText ==
  /\ "classification" \in srv.attempted =>
       srv.classified_text =
         IF "translation" \in srv.succeeded THEN srv.translation.value
                                            ELSE srv.ocr.value
  /\ \A id \in Ids : \A k \in Sent(id, ClassifyUrl) :
       (InQueue(id) /\ FileOf(id).hasResult) =>
         /\ requests[id][k].text = FileOf(id).result.ocr.text
         /\ requests[id][k].translation =
              IF FileOf(id).result.translation.isNull
                THEN NULL
                ELSE FileOf(id).result.translation.translated_text

C14_Witness ==
  \E id \in Ids : \E k \in Sent(id, ClassifyUrl) :
    /\ InQueue(id) /\ FileOf(id).hasResult
    /\ ~FileOf(id).result.translation.isNull
    /\ requests[id][k].text = "txt"
    /\ requests[id][k].translation = "translated"

\* C15: every response of the AI-services API carries a boolean success, with
\* data exactly when success is true and error exactly when success is false.
C15_CommonResponseFormat ==
  \A k \in DOMAIN replies :
    /\ replies[k].success \in {"true", "false"}
    /\ "success" \in replies[k].keys
    /\ "data" \in replies[k].keys <=> replies[k].success = "true"
    /\ "error" \in replies[k].keys <=> replies[k].success = "false"

\* C16: in the OCR-only page every image admitted by processFiles is found by
\* processOCR, leaves status uploading for processing and has its OCR request
\* sent, by drop and by file input, with an empty queue or not.
C16_EveryImageFound ==
  \A id \in 1..(nextId - 1) :
    pc[id] # "start" =>
      /\ caught[id] # FileNotFound
      /\ Sent(id, OcrUrl) # {}
      /\ InQueue(id) =>
           FileOf(id).error # "File not found for processing"

\* The formats the page announces: images, PDF, DOC, DOCX.
AdmissibleTypes ==
  { [major |-> "image", minor |-> "png"],
    [major |-> "image", minor |-> "jpeg"],
    [major |-> "application", minor |-> "pdf"],
    [major |-> "application", minor |-> "msword"],
    [major |-> "application",
     minor |-> "vnd.openxmlformats-officedocument.wordprocessingml.document"] }

IsAdmissible(type) == type \in AdmissibleTypes
IsOther(type) == type \notin AdmissibleTypes

\* C21: processFiles appends exactly the images, PDF, DOC and DOCX files of
\* its input, in input order, each with status uploading and progress 0; the
\* other files are skipped, admitted and skipped files make up the input, and
\* with no admitted file the queue stays and no request is sent.
C21_Admission ==
  [][(lastDrop' # lastDrop \/ nextId' # nextId) =>
       LET fileList == lastDrop'.fileList
           admitted == SelectSeq(fileList, IsAdmissible)
           n == Len(admitted)
       IN /\ Len(files') = Len(files) + n
          /\ SubSeq(files', 1, Len(files)) = files
          /\ \A k \in 1..n :
               /\ files'[Len(files) + k].type = admitted[k]
               /\ files'[Len(files) + k].id = nextId + k - 1
               /\ files'[Len(files) + k].status = "uploading"
               /\ files'[Len(files) + k].progress = 0
          /\ lastDrop'.skipped = Len(SelectSeq(fileList, IsOther))
          /\ n + lastDrop'.skipped = Len(fileList)
          /\ n = 0 => /\ files' = files
                      /\ requests' = requests
                      /\ pc' = pc /\ running' = running]_vars

C21_Witness ==
  /\ lastDrop.fileList = << [major |-> "text", minor |-> "plain"],
                            [major |-> "application", minor |-> "pdf"] >>
  /\ lastDrop.skipped = 1
  /\ Len(files) = 2
  /\ files[1].type.major = "image" /\ files[1].status = "processing"
  /\ files[2].type = [major |-> "application", minor |-> "pdf"]
  /\ files[2].status = "uploading" /\ files[2].progress = 0

\* The selection shows a file of the queue.
Selected == selectedFileResult # NoSelection /\ InQueue(selectedFileResult.id)

\* The selection differs from its queue entry in classificationStatus or
\* classification.
Stale ==
  /\ Selected
  /\ \/ FileOf(selectedFileResult.id).classificationStatus
          # selectedFileResult.classificationStatus
     \/ FileOf(selectedFileResult.id).result.classification
          # selectedFileResult.result.classification

\* C22: when the queue entry of the selected file gets a new
\* classificationStatus or classification, the selection eventually agrees
\* with the entry again; and every change of the selection leaves it in
\* agreement, so the refresh has nothing more to do.
C22_SelectionRefreshed ==
  /\ Stale ~> ~Stale
  /\ [][selectedFileResult' # selectedFileResult => ~Stale']_vars

C22_Witness ==
  /\ Selected
  /\ ~Stale
  /\ selectedFileResult.classificationStatus = "completed"
  /\ ~selectedFileResult.result.classification.isNull
  /\ "Classification Complete" \in toasts[selectedFileResult.id]

\* C23: the selection is null or a file of the queue; it is only set to a
\* completed file with a result; removing the selected file clears it.
C23_SelectionInQueue ==
  /\ [](selectedFileResult = NoSelection \/ InQueue(selectedFileResult.id))
  /\ [][(selectedFileResult' # selectedFileResult
           /\ selectedFileResult' # NoSelection) =>
          /\ \E i \in DOMAIN files' : files'[i].id = selectedFileResult'.id
          /\ selectedFileResult'.status = "completed"
          /\ selectedFileResult'.hasResult]_vars
  /\ [][\A id \in Ids :
          (selectedFileResult.id = id /\ InQueue(id) /\ ~InQueue(id)') =>
            selectedFileResult' = NoSelection]_vars

C23_Witness ==
  \E id \in Ids : \E other \in Ids :
    /\ Removed(other)
    /\ selectedFileResult.id = id
    /\ InQueue(id)
    /\ selectedFileResult.status = "completed"

\* C24: a file with classificationStatus completed has in its result the
\* classification of its classify response; with classificationStatus loading
\* or error the result has no classification.
C24_ClassificationStored ==
  \A i \in DOMAIN files :
    /\ files[i].classificationStatus = "completed" =>
         /\ files[i].hasResult
         /\ ~files[i].result.classification.isNull
         /\ files[i].result.classification = ApiClassification
    /\ files[i].classificationStatus \in {"loading", "error"} =>
         files[i].result.classification.isNull

LanguageUrl == "/api/language/detect"

\* The OCR request of the file failed: rejected, not OK, or no readable body.
OcrFailed(id) ==
  /\ Sent(id, OcrUrl) # {}
  /\ \/ response[id].settled = "rejected"
     \/ response[id].settled = "resolved" /\ ~response[id].ok
     \/ response[id].settled = "resolved" /\ ~apiResult[id].parse

IsBlank(q) == \A i \in DOMAIN q : q[i] = " "

\* The chat request ended well: an OK response with a response text.
ChatSucceeded(c) == c.ok /\ c.data.parse /\ c.data.hasResponse

\* C26: a submit with a non-blank query appends one user message and sends
\* one request; the settling of the request appends one assistant message
\* (the response with its sources, or the apology without sources) and sets
\* isLoading to false; nothing else changes the messages; with a blank query
\* nothing is appended or sent and isLoading stays; every request settles.
C26_ChatRoundTrip ==
  /\ [][/\ chat'.sent # chat.sent =>
             /\ ~IsBlank(chat.query)
             /\ chat'.sent = Append(chat.sent, chat.query)
             /\ chat'.messages = Append(chat.messages,
                  [role |-> "user", content |-> chat.query, sources |-> "undefined"])
             /\ chat'.isLoading
        /\ (chat.pc # "idle" /\ chat'.pc = "idle") =>
             /\ Len(chat'.messages) = Len(chat.messages) + 1
             /\ SubSeq(chat'.messages, 1, Len(chat.messages)) = chat.messages
             /\ chat'.messages[Len(chat'.messages)].role = "assistant"
             /\ IF ChatSucceeded(chat')
                  THEN /\ chat'.messages[Len(chat'.messages)].content = chat'.data.text
                       /\ chat'.messages[Len(chat'.messages)].sources # "undefined"
                  ELSE chat'.messages[Len(chat'.messages)] = Apology
             /\ ~chat'.isLoading
             /\ chat'.sent = chat.sent
        /\ chat'.messages # chat.messages =>
             \/ chat'.sent # chat.sent
             \/ chat.pc # "idle" /\ chat'.pc = "idle"
        /\ (chat.pc = "idle" /\ IsBlank(chat.query)) =>
             /\ chat'.messages = chat.messages
             /\ chat'.sent = chat.sent
             /\ chat'.isLoading = chat.isLoading
        /\ chat'.isLoading # chat.isLoading =>
             \/ chat'.sent # chat.sent
             \/ chat.pc # "idle" /\ chat'.pc = "idle"]_vars
  /\ [](Len(chat.messages) = 1 + Len(chat.sent) + (Len(chat.sent) - (IF chat.isLoading THEN 1 ELSE 0)))
  /\ chat.isLoading ~> ~chat.isLoading

C26_Witness ==
  /\ Len(chat.sent) = 2
  /\ ~chat.isLoading
  /\ Len(chat.messages) = 5
  /\ chat.messages[2].role = "user"
  /\ chat.messages[3] = Apology
  /\ chat.messages[4].role = "user"
  /\ chat.messages[5].role = "assistant" /\ chat.messages[5].sources = "quoted documents"

====
